---- MODULE Spec2Model ----
(***************************************************************************)
(* A model of the logview widget (src/logview/logview.go): line ingestion, *)
(* search/filter, line wrapping, the scroll position and the rendering of  *)
(* the log pane and the status line.                                       *)
(*                                                                         *)
(* A Go string is a sequence of one-character strings.  LF stands for      *)
(* "\n", CR for "\r", SP for " ".  HS and HE stand for the escape          *)
(* sequences lipgloss writes before and after a highlighted span; they     *)
(* occupy no column.                                                       *)
(***************************************************************************)
EXTENDS Integers, Sequences, FiniteSets, TLC

LF == "LF"
CR == "CR"
SP == "SP"
HS == "HS"
HE == "HE"

\* A nil *regexp.Regexp / a nil *string: a value no string equals.
Nil == <<"nil">>

(***************************************************************************)
(* Bounds of the model.                                                    *)
(***************************************************************************)
\* Bytes ingested over a run of the viewer.
MaxBytes == 3
\* Longest query typed in the search bar.
MaxQuery == 2
\* Longest chunk of the chunking experiment.
MaxSplitChunk == 3
MaxLine == 4
MaxRows == 3
MaxWidth == 2

\* The bytes of the stream: an ordinary byte and the record separator.
Bytes == {"a", LF}
\* The bytes of the chunking experiment: carriage return as well.
SplitBytes == {"a", LF, CR}

RECURSIVE StringsUpTo(_, _)
StringsUpTo(alphabet, n) ==
    IF n = 0 THEN {<<>>}
    ELSE LET shorter == StringsUpTo(alphabet, n - 1)
         IN  shorter \cup {Append(s, c) : s \in shorter, c \in alphabet}

(***************************************************************************)
(* Go builtins and package strings.                                        *)
(***************************************************************************)
max(a, b) == IF a >= b THEN a ELSE b
min(a, b) == IF a <= b THEN a ELSE b

clamp(lower, upper, val) == max(lower, min(upper, val))

\* s[from:to] with Go's 0-based half-open bounds.
Slice(s, from, to) == SubSeq(s, from + 1, to)

HasSuffix(s, suffix) ==
    /\ Len(s) >= Len(suffix)
    /\ Slice(s, Len(s) - Len(suffix), Len(s)) = suffix

HasPrefix(s, prefix) ==
    /\ Len(s) >= Len(prefix)
    /\ Slice(s, 0, Len(prefix)) = prefix

\* strings.IndexByte: the 0-based index of the first c in s, or -1.
IndexByte(s, c) ==
    IF \E i \in 1..Len(s) : s[i] = c
    THEN (CHOOSE i \in 1..Len(s) : s[i] = c /\ \A j \in 1..(i - 1) : s[j] # c) - 1
    ELSE -1

Count(s, c) == Cardinality({i \in 1..Len(s) : s[i] = c})

RECURSIVE Split(_, _)
Split(s, sep) ==
    LET i == IndexByte(s, sep)
    IN  IF i < 0 THEN <<s>>
        ELSE <<Slice(s, 0, i)>> \o Split(Slice(s, i + 1, Len(s)), sep)

RECURSIVE Join(_, _)
Join(parts, sep) ==
    IF Len(parts) = 0 THEN <<>>
    ELSE IF Len(parts) = 1 THEN parts[1]
    ELSE parts[1] \o <<sep>> \o Join(Tail(parts), sep)

RECURSIVE Repeat(_, _)
Repeat(s, n) == IF n <= 0 THEN <<>> ELSE s \o Repeat(s, n - 1)

TrimPrefix(s, prefix) ==
    IF HasPrefix(s, prefix) THEN Slice(s, Len(prefix), Len(s)) ELSE s

TrimSuffix(s, suffix) ==
    IF HasSuffix(s, suffix) THEN Slice(s, 0, Len(s) - Len(suffix)) ELSE s

(***************************************************************************)
(* bufio.Scanner with the default split function, bufio.ScanLines: a token *)
(* ends at each "\n"; a last token without "\n" is returned when it is not *)
(* empty; one trailing "\r" is dropped from every token.                   *)
(***************************************************************************)
dropCR(data) ==
    IF Len(data) > 0 /\ data[Len(data)] = CR
    THEN Slice(data, 0, Len(data) - 1)
    ELSE data

RECURSIVE ScanLines(_)
ScanLines(content) ==
    IF Len(content) = 0 THEN <<>>
    ELSE LET i == IndexByte(content, LF)
         IN  IF i >= 0
             THEN <<dropCR(Slice(content, 0, i))>>
                      \o ScanLines(Slice(content, i + 1, Len(content)))
             ELSE <<dropCR(content)>>

(***************************************************************************)
(* The search pattern.  A query with "(" in it does not compile, every     *)
(* other query is a literal, after "^" a literal at the start of the line. *)
(* The compiled pattern is the query text itself.                          *)
(***************************************************************************)
Queries == {<<>>, <<"a">>, <<"a", "a">>, <<"(">>}

\* regexp.Compile: Nil stands for the error.
Compile(query) ==
    IF \E i \in 1..Len(query) : query[i] = "(" THEN Nil ELSE query

\* A pattern that starts with "^" matches at the start of the line only; the
\* rest of it is the literal.
Anchored(re) == Len(re) > 0 /\ re[1] = "^"

Literal(re) == IF Anchored(re) THEN Tail(re) ELSE re

MatchesAt(re, line, i) ==
    /\ Anchored(re) => i = 0
    /\ i + Len(Literal(re)) <= Len(line)
    /\ Slice(line, i, i + Len(Literal(re))) = Literal(re)

\* The loop of Regexp.FindAllStringIndex(line, -1): the leftmost match
\* [start, end) at or after `pos`, the search resuming at its end, or one
\* byte further after an empty match; an empty match right at the end of
\* the match before is left out.
RECURSIVE FindAllFrom(_, _, _, _)
FindAllFrom(re, line, pos, prevMatchEnd) ==
    IF pos <= Len(line) /\ \E i \in pos..Len(line) : MatchesAt(re, line, i)
    THEN LET s == CHOOSE i \in pos..Len(line) :
                      /\ MatchesAt(re, line, i)
                      /\ \A j \in pos..(i - 1) : ~MatchesAt(re, line, j)
             e == s + Len(Literal(re))
             accept == ~(e = pos /\ s = prevMatchEnd)
             next == IF e = pos THEN pos + 1 ELSE e
         IN  (IF accept THEN <<<<s, e>>>> ELSE <<>>)
                 \o FindAllFrom(re, line, next, e)
    ELSE <<>>

FindAllStringIndex(re, line) == FindAllFrom(re, line, 0, -1)

\* lipgloss Style.Render of the highlight style.
highlightRender(s) == <<HS>> \o s \o <<HE>>

\* The loop of searchLine without the text after the last match.
RECURSIVE searchLineLoopNoRest(_, _, _, _)
searchLineLoopNoRest(line, matches, start, result) ==
    IF Len(matches) = 0 THEN result
    ELSE LET m == matches[1]
             before == IF m[1] > start
                       THEN (IF result # Nil THEN result ELSE <<>>)
                                \o Slice(line, start, m[1])
                       ELSE result
             marked == (IF before # Nil THEN before ELSE <<>>)
                           \o highlightRender(Slice(line, m[1], m[2]))
         IN  searchLineLoopNoRest(line, Tail(matches), m[2], marked)

\* The loop of searchLine over the matches: `result` is Nil or a string.
RECURSIVE searchLineLoop(_, _, _, _)
searchLineLoop(line, matches, start, result) ==
    IF Len(matches) = 0
    THEN IF result # Nil THEN result \o Slice(line, start, Len(line)) ELSE Nil
    ELSE LET m == matches[1]
             before == IF m[1] > start
                       THEN (IF result # Nil THEN result ELSE <<>>)
                                \o Slice(line, start, m[1])
                       ELSE result
             marked == (IF before # Nil THEN before ELSE <<>>)
                           \o highlightRender(Slice(line, m[1], m[2]))
         IN  searchLineLoop(line, Tail(matches), m[2], marked)

\* Model.searchLine(lineno) on the lines `ls` with pattern `re`.
searchLine(ls, re, lineno) ==
    IF re = Nil THEN Nil
    ELSE IF lineno < 0 THEN Nil
    ELSE searchLineLoop(ls[lineno + 1], FindAllStringIndex(re, ls[lineno + 1]), 0, Nil)

RECURSIVE searchFrom(_, _, _)
searchFrom(ls, re, i) ==
    IF i >= Len(ls) THEN <<>>
    ELSE LET thing == searchLine(ls, re, i)
         IN  (IF thing # Nil THEN <<thing>> ELSE <<>>) \o searchFrom(ls, re, i + 1)

\* Model.search(): nil (the empty slice) without a pattern.
search(ls, re) == IF re = Nil THEN <<>> ELSE searchFrom(ls, re, 0)

(***************************************************************************)
(* Model.handleWrite.  A store is the part of the Model a write touches:   *)
(* [lines, filtered, buffer]; `re` is m.queryRe.                           *)
(***************************************************************************)
\* The first token put in the place of the last line instead of after it.
handleWriteFirstInPlace(st, re, text) ==
    LET ls == IF Len(st.lines) = 0 THEN <<st.buffer \o text>>
              ELSE Append(Slice(st.lines, 0, Len(st.lines) - 1), st.buffer \o text)
        result == searchLine(ls, re, Len(ls) - 1)
    IN  [lines |-> ls,
         buffer |-> <<>>,
         filtered |-> IF result # Nil THEN Append(st.filtered, result)
                      ELSE st.filtered]

\* The first token: appended to the buffer and flushed as a line.
handleWriteFirst(st, re, text) ==
    LET ls == Append(st.lines, st.buffer \o text)
        result == searchLine(ls, re, Len(ls) - 1)
    IN  [lines |-> ls,
         buffer |-> <<>>,
         filtered |-> IF result # Nil THEN Append(st.filtered, result)
                      ELSE st.filtered]

\* The loop over the rest of the tokens.
RECURSIVE handleWriteRest(_, _, _)
handleWriteRest(st, re, tokens) ==
    IF Len(tokens) = 0 THEN st
    ELSE LET text == tokens[1]
             ls == Append(st.lines, text)
             result == searchLine(ls, re, Len(ls) - 1)
             next == [lines |-> ls,
                      buffer |-> st.buffer,
                      filtered |-> IF result # Nil /\ HasSuffix(text, <<LF>>)
                                   THEN Append(st.filtered, result)
                                   ELSE st.filtered]
         IN  handleWriteRest(next, re, Tail(tokens))

\* The end of handleWrite: a write that did not end with "\n" overshot.
handleWriteOvershoot(st, content) ==
    IF Len(st.lines) > 0 /\ ~HasSuffix(content, <<LF>>)
    THEN [lines |-> Slice(st.lines, 0, Len(st.lines) - 1),
          buffer |-> st.lines[Len(st.lines)],
          filtered |-> st.filtered]
    ELSE st

handleWrite(st, re, content) ==
    LET tokens == ScanLines(content)
    IN  IF Len(tokens) = 0 THEN st
        ELSE handleWriteOvershoot(
                 handleWriteRest(handleWriteFirst(st, re, tokens[1]), re, Tail(tokens)),
                 content)

(***************************************************************************)
(* Line wrapping: reflow's wrap.String and truncate.String on strings      *)
(* without blanks, then Model.wrapLine.                                    *)
(***************************************************************************)
\* The columns a character takes: an escape sequence takes none.
RuneWidth(c) == IF c \in {HS, HE, CR, LF} THEN 0 ELSE 1

RECURSIVE PrintableRuneWidth(_)
PrintableRuneWidth(s) ==
    IF Len(s) = 0 THEN 0 ELSE RuneWidth(s[1]) + PrintableRuneWidth(Tail(s))

\* wrap.String's loop: a newline before the character that would pass the limit.
RECURSIVE wrapLoop(_, _, _)
wrapLoop(s, lineLen, limit) ==
    IF Len(s) = 0 THEN <<>>
    ELSE LET c == s[1]
         IN  IF RuneWidth(c) = 0 THEN <<c>> \o wrapLoop(Tail(s), lineLen, limit)
             ELSE IF lineLen + RuneWidth(c) > limit
                  THEN <<LF, c>> \o wrapLoop(Tail(s), RuneWidth(c), limit)
                  ELSE <<c>> \o wrapLoop(Tail(s), lineLen + RuneWidth(c), limit)

wrapString(s, limit) ==
    IF limit <= 0 \/ PrintableRuneWidth(s) <= limit THEN s
    ELSE wrapLoop(s, 0, limit)

\* truncate.String's loop: stops at the character that passes the width and
\* closes a highlight left open.
RECURSIVE truncateLoop(_, _, _, _)
truncateLoop(s, curWidth, width, open) ==
    IF Len(s) = 0 THEN <<>>
    ELSE LET c == s[1]
             w == curWidth + RuneWidth(c)
         IN  IF w > width THEN (IF open THEN <<HE>> ELSE <<>>)
             ELSE <<c>> \o truncateLoop(Tail(s), w, width,
                                        IF c = HS THEN TRUE
                                        ELSE IF c = HE THEN FALSE ELSE open)

truncateString(s, width) == truncateLoop(s, 0, width, FALSE)

firstNLines(s, n) ==
    LET ls == Split(s, LF)
    IN  Join(Slice(ls, 0, min(n, Len(ls))), LF)

lastNLines(s, n) ==
    LET ls == Split(s, LF)
    IN  Join(Slice(ls, max(0, Len(ls) - n), Len(ls)), LF)

\* wrapLine clipping from the head whatever the scroll position.
wrapLineFromHead(hardwrap, scrollPos, line, maxLines, width) ==
    IF hardwrap THEN <<truncateString(line, width), 1>>
    ELSE LET wrapped == wrapString(line, width)
             wrappedHeight == Count(wrapped, LF) + 1
         IN  IF wrappedHeight > maxLines
             THEN <<firstNLines(wrapped, maxLines), maxLines>>
             ELSE <<wrapped, wrappedHeight>>

\* Model.wrapLine: <<wrapped, wrappedHeight>>.
wrapLine(hardwrap, scrollPos, line, maxLines, width) ==
    IF hardwrap THEN <<truncateString(line, width), 1>>
    ELSE LET wrapped == wrapString(line, width)
             wrappedHeight == Count(wrapped, LF) + 1
         IN  IF wrappedHeight > maxLines
             THEN <<IF scrollPos < 0 THEN lastNLines(wrapped, maxLines)
                                     ELSE firstNLines(wrapped, maxLines),
                    maxLines>>
             ELSE <<wrapped, wrappedHeight>>

\* Model.logHeight.
logHeight(showStatusbar, height) ==
    IF ~showStatusbar THEN height ELSE max(height - 1, 0)

(***************************************************************************)
(* Model.RenderLog.  `m` is the Model as a record; the result is           *)
(* [output, firstDisplayedLine].                                           *)
(***************************************************************************)
lineViewOf(m) == IF m.queryRe # Nil THEN m.filtered ELSE m.lines

\* The tailing loop, from the end of the view backward.
RECURSIVE tailLoop(_, _, _, _, _, _, _)
tailLoop(m, lineView, pointer, output, outputHeight, targetHeight, width) ==
    IF outputHeight < targetHeight /\ pointer >= 0
    THEN LET w == wrapLine(m.shouldHardwrap, m.scrollPosition, lineView[pointer + 1],
                           targetHeight - outputHeight, width)
         IN  tailLoop(m, lineView, pointer - 1, <<LF>> \o w[1] \o output,
                      outputHeight + w[2], targetHeight, width)
    ELSE [pointer |-> pointer, output |-> output, outputHeight |-> outputHeight]

RenderLogTail(m, width, height) ==
    LET lineView == lineViewOf(m)
        targetHeight == height
        buf == IF m.buffer # <<>>
               THEN wrapLine(m.shouldHardwrap, m.scrollPosition, m.buffer,
                             targetHeight, width)
               ELSE <<<<>>, 0>>
        output0 == IF m.buffer # <<>> THEN <<LF>> \o buf[1] ELSE <<>>
        r == tailLoop(m, lineView, Len(lineView) - 1, output0, buf[2],
                      targetHeight, width)
        trimmed == TrimPrefix(r.output, <<LF>>)
        pad == Repeat(<<SP>>, width) \o <<LF>>
    IN  [output |-> Repeat(pad, targetHeight - r.outputHeight) \o trimmed,
         firstDisplayedLine |-> r.pointer]

\* The pinned loop, from the scroll position forward.
RECURSIVE pinnedLoop(_, _, _, _, _, _, _)
pinnedLoop(m, lineView, pointer, output, outputHeight, targetHeight, width) ==
    IF outputHeight < targetHeight /\ pointer < Len(lineView)
    THEN LET w == wrapLine(m.shouldHardwrap, m.scrollPosition, lineView[pointer + 1],
                           targetHeight - outputHeight, width)
         IN  pinnedLoop(m, lineView, pointer + 1, output \o w[1] \o <<LF>>,
                        outputHeight + w[2], targetHeight, width)
    ELSE [output |-> output, outputHeight |-> outputHeight]

RenderLogPinned(m, width, height) ==
    LET lineView == lineViewOf(m)
        targetHeight == logHeight(m.shouldShowStatusbar, height)
        r == pinnedLoop(m, lineView, m.scrollPosition, <<>>, 0, targetHeight, width)
        withBuffer ==
            IF r.outputHeight < targetHeight /\ m.buffer # <<>>
            THEN r.output
                   \o wrapLine(m.shouldHardwrap, m.scrollPosition, m.buffer,
                               targetHeight - r.outputHeight, width)[1]
                   \o <<LF>>
            ELSE r.output
    IN  [output |-> TrimSuffix(withBuffer, <<LF>>),
         firstDisplayedLine |-> m.scrollPosition]

RenderLog(m, width, height) ==
    IF m.scrollPosition < 0 THEN RenderLogTail(m, width, height)
    ELSE RenderLogPinned(m, width, height)

(***************************************************************************)
(* The status line.                                                        *)
(***************************************************************************)
Digit == <<"0", "1", "2", "3", "4", "5", "6", "7", "8", "9">>

\* fmt's %d of a non-negative int.
RECURSIVE Itoa(_)
Itoa(n) == IF n < 10 THEN <<Digit[n + 1]>> ELSE Itoa(n \div 10) \o <<Digit[(n % 10) + 1]>>

RenderLineStatus(m) ==
    LET lineView == lineViewOf(m)
        linecount == Len(lineView) + (IF m.buffer # <<>> THEN 1 ELSE 0)
    IN  IF m.scrollPosition < 0 THEN <<>>
        ELSE Itoa(m.scrollPosition + 1) \o <<SP, "o", "f", SP>> \o Itoa(linecount)

\* textinput's View: the prompt and the value.
RenderSearchStatus(m) ==
    IF m.input # <<>> \/ m.focus = "FocusSearchBar" THEN <<"/">> \o m.input ELSE <<>>

viewStatusbar(m) ==
    LET result == RenderLineStatus(m)
    IN  (IF result # <<>> THEN result \o <<"TAB">> ELSE result) \o RenderSearchStatus(m)

\* Model.Render: [drawn, log, logHeight, firstDisplayedLine, statusbar, status];
\* `log` is RenderLog's string, `status` the status line's text, `drawn` is
\* FALSE for the empty frame of a window without area.
Render(m, width, height) ==
    IF width <= 0 \/ height <= 0
    THEN [drawn |-> FALSE, log |-> <<>>, logHeight |-> 0,
          firstDisplayedLine |-> m.firstDisplayedLine,
          statusbar |-> FALSE, status |-> <<>>, lineStatus |-> <<>>]
    ELSE IF height < 2 \/ ~m.shouldShowStatusbar
    THEN LET r == RenderLog(m, width, height)
         IN  [drawn |-> TRUE, log |-> r.output, logHeight |-> height,
              firstDisplayedLine |-> r.firstDisplayedLine,
              statusbar |-> FALSE, status |-> <<>>, lineStatus |-> <<>>]
    ELSE LET r == RenderLog(m, width, height - 1)
             after == [m EXCEPT !.firstDisplayedLine = r.firstDisplayedLine]
         IN  [drawn |-> TRUE, log |-> r.output, logHeight |-> height - 1,
              firstDisplayedLine |-> r.firstDisplayedLine,
              statusbar |-> TRUE, status |-> viewStatusbar(after),
              lineStatus |-> RenderLineStatus(after)]

(***************************************************************************)
(* The Model struct and the operations on it.                              *)
(***************************************************************************)
VARIABLES
    lines,                \* m.lines: the complete lines
    filtered,             \* m.filtered: the highlighted matching lines
    buffer,               \* m.buffer: what was written since the last "\n"
    input,                \* m.input.Value(): the query text
    queryRe,              \* m.queryRe: the compiled query, or Nil
    focus,                \* m.focus
    prevQuery,            \* m.prevQuery
    scrollPosition,       \* m.scrollPosition: negative when tailing
    firstDisplayedLine,   \* m.firstDisplayedLine
    shouldHardwrap,       \* m.shouldHardwrap
    shouldShowStatusbar,  \* m.shouldShowStatusbar
    last,                 \* the latest call on the Model and what it returned
    parts,                \* chunking experiment: the two halves of a chunk
    step,                 \* chunking experiment: the calls made so far
    ref,                  \* chunking experiment: the store written in one call
    source,               \* main: the stream the tailing goroutine reads
    msgs,                 \* the program's message channel: what each sender
                          \* is blocked on, and whether the program has quit
    delivered             \* the chunks scroll.Update has written, joined

storeVars == <<lines, filtered, buffer>>
searchVars == <<input, queryRe, focus, prevQuery>>
scrollVars == <<scrollPosition, firstDisplayedLine>>
optVars == <<shouldHardwrap, shouldShowStatusbar>>
pipeVars == <<source, msgs, delivered>>
chunkVars == <<parts, step, ref, pipeVars>>
vars == <<storeVars, searchVars, scrollVars, optVars, last, chunkVars>>

\* The Model as a record, for the operators above.
Model ==
    [lines |-> lines, filtered |-> filtered, buffer |-> buffer,
     input |-> input, queryRe |-> queryRe, focus |-> focus,
     scrollPosition |-> scrollPosition, firstDisplayedLine |-> firstDisplayedLine,
     shouldHardwrap |-> shouldHardwrap, shouldShowStatusbar |-> shouldShowStatusbar]

Store == [lines |-> lines, filtered |-> filtered, buffer |-> buffer]

\* The view scrolling and rendering work on.
lineView == IF queryRe # Nil THEN filtered ELSE lines

NoFrame ==
    [drawn |-> FALSE, log |-> <<>>, logHeight |-> 0, firstDisplayedLine |-> 0,
     statusbar |-> FALSE, status |-> <<>>, lineStatus |-> <<>>]

Call(op, arg) == [op |-> op, arg |-> arg, width |-> 0, height |-> 0, frame |-> NoFrame]

\* The bytes ingested so far.
RECURSIVE TotalLen(_)
TotalLen(ls) == IF Len(ls) = 0 THEN 0 ELSE Len(ls[1]) + 1 + TotalLen(Tail(ls))

Ingested == TotalLen(lines) + Len(buffer)

Chunks == StringsUpTo(Bytes, MaxBytes)
ScrollDeltas == {-1, 0, 1}
ScrollTargets == {-1, 0, 1, MaxBytes}
\* <<width, height>> of a Render call: windows without area, then real ones.
Viewports == {<<0, 0>>, <<0, 2>>, <<2, 0>>} \cup ({1, 2} \X {1, 2, 3})

\* New(mods...) with any of WithoutStatusbar, WithStartAtHead, WithSoftWrap.
New ==
    /\ lines = <<>>
    /\ filtered = <<>>
    /\ buffer = <<>>
    /\ input = <<>>
    /\ queryRe = Nil
    /\ focus = "focusNone"
    /\ prevQuery = <<>>
    /\ scrollPosition \in {-1, 0}
    /\ firstDisplayedLine = 0
    /\ shouldHardwrap = FALSE
    /\ shouldShowStatusbar \in BOOLEAN
    /\ last = Call("New", 0)

\* The Model used on its own, without main around it.
NoProgram ==
    /\ source = [mode |-> "none", all |-> <<>>, pos |-> 0, eof |-> FALSE]
    /\ msgs = [tail |-> Nil, user |-> "none", quit |-> FALSE]
    /\ delivered = <<>>

NoExperiment ==
    /\ parts = <<>>
    /\ step = "off"
    /\ ref = [lines |-> <<>>, filtered |-> <<>>, buffer |-> <<>>, done |-> FALSE]
    /\ NoProgram

Init == New /\ NoExperiment

\* Model.Write(content).
Write(content) ==
    /\ Ingested + Len(content) <= MaxBytes
    /\ LET st == handleWrite(Store, queryRe, content)
       IN  /\ lines' = st.lines
           /\ filtered' = st.filtered
           /\ buffer' = st.buffer
    /\ last' = Call("Write", 0)
    /\ UNCHANGED <<searchVars, scrollVars, optVars, chunkVars>>

\* handleSearch searching with the pattern it had before compiling the new one.
handleSearchOldPattern(m, query) ==
    IF query = <<>> THEN [queryRe |-> Nil, filtered |-> m.filtered]
    ELSE LET compiled == Compile(query)
             re == IF compiled # Nil THEN compiled ELSE m.queryRe
         IN  [queryRe |-> re, filtered |-> search(m.lines, m.queryRe)]

\* handleSearch leaving the compiled query in place when the text is empty.
handleSearchKeepPattern(m, query) ==
    IF query = <<>> THEN [queryRe |-> m.queryRe, filtered |-> m.filtered]
    ELSE LET compiled == Compile(query)
             re == IF compiled # Nil THEN compiled ELSE m.queryRe
         IN  [queryRe |-> re, filtered |-> search(m.lines, re)]

\* handleSearch dropping the compiled query when the text does not compile.
handleSearchClearOnError(m, query) ==
    IF query = <<>> THEN [queryRe |-> Nil, filtered |-> m.filtered]
    ELSE LET re == Compile(query)
         IN  [queryRe |-> re, filtered |-> search(m.lines, re)]

\* Model.handleSearch with the query text `query`: [queryRe, filtered].
handleSearch(m, query) ==
    IF query = <<>> THEN [queryRe |-> Nil, filtered |-> m.filtered]
    ELSE LET compiled == Compile(query)
             re == IF compiled # Nil THEN compiled ELSE m.queryRe
         IN  [queryRe |-> re, filtered |-> search(m.lines, re)]

\* Model.SetQuery(query).
SetQuery(query) ==
    /\ input' = query
    /\ LET r == handleSearch(Model, query)
       IN  /\ queryRe' = r.queryRe
           /\ filtered' = r.filtered
    /\ last' = Call("SetQuery", 0)
    /\ UNCHANGED <<lines, buffer, focus, prevQuery, scrollVars, optVars, chunkVars>>

\* ScrollBy starting from the first displayed line even when pinned.
scrollByFromDisplayed(m, n) ==
    clamp(0, Len(lineViewOf(m)) - 1, max(0, m.firstDisplayedLine) + n)

\* Model.ScrollBy(lines): the new scroll position.
scrollBy(m, n) ==
    LET from == IF m.scrollPosition < 0 THEN max(0, m.firstDisplayedLine)
                ELSE m.scrollPosition
    IN  clamp(0, Len(lineViewOf(m)) - 1, from + n)

ScrollBy(n) ==
    /\ scrollPosition' = scrollBy(Model, n)
    /\ last' = Call("ScrollBy", n)
    /\ UNCHANGED <<storeVars, searchVars, firstDisplayedLine, optVars, chunkVars>>

\* ScrollTo without the clamp to the view.
scrollToUnclamped(m, line) == IF line < 0 THEN -1 ELSE line

\* Model.ScrollTo(line): the new scroll position.
scrollTo(m, line) ==
    IF line < 0 THEN -1 ELSE clamp(0, Len(lineViewOf(m)) - 1, line)

ScrollTo(line) ==
    /\ scrollPosition' = scrollTo(Model, line)
    /\ last' = Call("ScrollTo", line)
    /\ UNCHANGED <<storeVars, searchVars, firstDisplayedLine, optVars, chunkVars>>

\* Model.ToggleWrapMode().
ToggleWrapMode ==
    /\ shouldHardwrap' = ~shouldHardwrap
    /\ last' = Call("ToggleWrapMode", 0)
    /\ UNCHANGED <<storeVars, searchVars, scrollVars, shouldShowStatusbar, chunkVars>>

\* Model.Render(styles, width, height).
DoRender(width, height) ==
    /\ LET frame == Render(Model, width, height)
       IN  /\ firstDisplayedLine' = frame.firstDisplayedLine
           /\ last' = [op |-> "Render", arg |-> 0, width |-> width,
                       height |-> height, frame |-> frame]
    /\ UNCHANGED <<storeVars, searchVars, scrollPosition, optVars, chunkVars>>

(***************************************************************************)
(* Model.handleKey: the search bar.  textinput's Update appends a typed     *)
(* rune to the value and backspace drops the last one.                     *)
(***************************************************************************)
\* "/" in the log pane: prevQuery, SetQuery(""), SetFocus(FocusSearchBar).
KeySlash ==
    /\ focus # "FocusSearchBar"
    /\ prevQuery' = input
    /\ input' = <<>>
    /\ LET r == handleSearch(Model, <<>>)
       IN  /\ queryRe' = r.queryRe
           /\ filtered' = r.filtered
    /\ focus' = "FocusSearchBar"
    /\ last' = Call("KeySlash", 0)
    /\ UNCHANGED <<lines, buffer, scrollVars, optVars, chunkVars>>

\* A rune typed in the search bar.
KeyRune(c) ==
    /\ focus = "FocusSearchBar"
    /\ Len(input) < MaxQuery
    /\ input' = Append(input, c)
    /\ LET r == handleSearch(Model, Append(input, c))
       IN  /\ queryRe' = r.queryRe
           /\ filtered' = r.filtered
    /\ last' = Call("KeyRune", 0)
    /\ UNCHANGED <<lines, buffer, focus, prevQuery, scrollVars, optVars, chunkVars>>

\* "backspace" in the search bar: leaves the bar when the query is empty.
KeyBackspace ==
    /\ focus = "FocusSearchBar"
    /\ IF input = <<>>
       THEN /\ focus' = "FocusLogPane"
            /\ UNCHANGED <<input, queryRe, filtered>>
       ELSE /\ input' = Slice(input, 0, Len(input) - 1)
            /\ LET r == handleSearch(Model, Slice(input, 0, Len(input) - 1))
               IN  /\ queryRe' = r.queryRe
                   /\ filtered' = r.filtered
            /\ UNCHANGED focus
    /\ last' = Call("KeyBackspace", 0)
    /\ UNCHANGED <<lines, buffer, prevQuery, scrollVars, optVars, chunkVars>>

\* "enter" in the search bar.
KeyEnter ==
    /\ focus = "FocusSearchBar"
    /\ focus' = "FocusLogPane"
    /\ last' = Call("KeyEnter", 0)
    /\ UNCHANGED <<storeVars, input, queryRe, prevQuery, scrollVars, optVars, chunkVars>>

\* "esc" or "ctrl+c" in the search bar.
KeyEsc ==
    /\ focus = "FocusSearchBar"
    /\ input' = prevQuery
    /\ prevQuery' = <<>>
    /\ focus' = "FocusLogPane"
    /\ last' = Call("KeyEsc", 0)
    /\ UNCHANGED <<storeVars, queryRe, scrollVars, optVars, chunkVars>>

Next ==
    \/ \E content \in Chunks : Write(content)
    \/ \E query \in Queries : SetQuery(query)
    \/ \E n \in ScrollDeltas : ScrollBy(n)
    \/ \E line \in ScrollTargets : ScrollTo(line)
    \/ ToggleWrapMode
    \/ \E viewport \in Viewports : DoRender(viewport[1], viewport[2])

Spec == Init /\ [][Next]_vars

\* The viewer driven through its query and its search bar.
NextSearch ==
    \/ \E content \in Chunks : Write(content)
    \/ \E query \in Queries : SetQuery(query)
    \/ KeySlash
    \/ \E c \in {"a", "("} : KeyRune(c)
    \/ KeyBackspace
    \/ KeyEnter
    \/ KeyEsc

\* New() without options.
InitSearch == Init /\ scrollPosition = -1 /\ shouldShowStatusbar

SpecSearch == InitSearch /\ [][NextSearch]_vars

(***************************************************************************)
(* The chunking experiment: one chunk written to `ref` in a single call    *)
(* and to the Model in two calls, split at any point.                      *)
(***************************************************************************)
\* <<first half, second half>> of every chunk, split at every point.
Splits ==
    UNION {{<<Slice(c, 0, k), Slice(c, k, Len(c))>> : k \in 0..Len(c)} :
               c \in StringsUpTo(SplitBytes, MaxSplitChunk)}

\* The Model after New and a first Write of "", "a", "a\n" or "a\na".
InitChunk ==
    /\ lines \in {<<>>, << <<"a">> >>}
    /\ buffer \in {<<>>, <<"a">>}
    /\ filtered = <<>>
    /\ input = <<>>
    /\ queryRe = Nil
    /\ focus = "focusNone"
    /\ prevQuery = <<>>
    /\ scrollPosition = -1
    /\ firstDisplayedLine = 0
    /\ shouldHardwrap = FALSE
    /\ shouldShowStatusbar = TRUE
    /\ last = Call("Write", 0)
    /\ parts \in Splits
    /\ step = "start"
    /\ ref = [lines |-> lines, filtered |-> filtered, buffer |-> buffer,
              done |-> FALSE]
    /\ NoProgram

\* Model.Write(first half).
WriteFirstHalf ==
    /\ step = "start"
    /\ LET st == handleWrite(Store, queryRe, parts[1])
       IN  /\ lines' = st.lines
           /\ filtered' = st.filtered
           /\ buffer' = st.buffer
    /\ step' = "first"
    /\ UNCHANGED <<searchVars, scrollVars, optVars, last, parts, ref, pipeVars>>

\* Model.Write(second half).
WriteSecondHalf ==
    /\ step = "first"
    /\ LET st == handleWrite(Store, queryRe, parts[2])
       IN  /\ lines' = st.lines
           /\ filtered' = st.filtered
           /\ buffer' = st.buffer
    /\ step' = "both"
    /\ UNCHANGED <<searchVars, scrollVars, optVars, last, parts, ref, pipeVars>>

\* Model.Write(the whole chunk) on the reference store.
WriteWhole ==
    /\ ~ref.done
    /\ LET st == handleWrite([lines |-> ref.lines, filtered |-> ref.filtered,
                              buffer |-> ref.buffer],
                             queryRe, parts[1] \o parts[2])
       IN  ref' = [lines |-> st.lines, filtered |-> st.filtered,
                   buffer |-> st.buffer, done |-> TRUE]
    /\ UNCHANGED <<storeVars, searchVars, scrollVars, optVars, last, parts, step,
                   pipeVars>>

NextChunk == WriteFirstHalf \/ WriteSecondHalf \/ WriteWhole

SpecChunk == InitChunk /\ [][NextChunk]_vars

\* C1: ingesting the two halves of a chunk in two calls leaves the same
\* Line Store and the same pending buffer as ingesting the chunk in one call.
C1_ChunkingInvariance ==
    (step = "both" /\ ref.done) => (lines = ref.lines /\ buffer = ref.buffer)

(***************************************************************************)
(* What the claims compare the Model with.                                 *)
(***************************************************************************)
\* matchLine applied to every line of `ls` in order, non-matches dropped.
RecomputeAll(ls, re) ==
    LET matching == SelectSeq([i \in 1..Len(ls) |-> i - 1],
                              LAMBDA i : searchLine(ls, re, i) # Nil)
    IN  [k \in 1..Len(matching) |-> searchLine(ls, re, matching[k])]

\* xs is ys with some entries left out.
RECURSIVE IsSubsequence(_, _)
IsSubsequence(xs, ys) ==
    IF Len(xs) = 0 THEN TRUE
    ELSE IF Len(ys) = 0 THEN FALSE
    ELSE IF xs[1] = ys[1] THEN IsSubsequence(Tail(xs), Tail(ys))
    ELSE IsSubsequence(xs, Tail(ys))

\* A rendered line without its highlight markers.
StripMarkers(s) == SelectSeq(s, LAMBDA c : c \notin {HS, HE})

\* C2: while a query is active the Filtered View is the full recomputation
\* after every ingest call: each newly finalized matching line was appended.
C2_IncrementalFiltering ==
    (last.op = "Write" /\ queryRe # Nil) => filtered = RecomputeAll(lines, queryRe)

\* C3: the Filtered View is no longer than the Line Store and its entries
\* are, in order, a subsequence of the Line Store's lines that match the
\* current query.
C3_FilteredViewInvariant ==
    /\ Len(filtered) <= Len(lines)
    /\ IsSubsequence([k \in 1..Len(filtered) |-> StripMarkers(filtered[k])], lines)
    /\ queryRe # Nil => IsSubsequence(filtered, RecomputeAll(lines, queryRe))

\* C4: the scroll state is Tailing or Pinned(index) with
\* 0 <= index < len(ActiveView).
C4_ScrollStateInvariant ==
    scrollPosition < 0 \/ (0 <= scrollPosition /\ scrollPosition < Len(lineView))

\* The visual rows of one line at `width`, unclipped.
RowsOfLine(line, width) ==
    IF shouldHardwrap THEN <<truncateString(line, width)>>
    ELSE Split(wrapString(line, width), LF)

\* The visual rows of the Active View from index `from` on, then those of
\* the pending buffer when it is not empty.
RECURSIVE RowsFrom(_, _)
RowsFrom(from, width) ==
    IF from >= Len(lineView)
    THEN IF buffer # <<>> THEN RowsOfLine(buffer, width) ELSE <<>>
    ELSE RowsOfLine(lineView[from + 1], width) \o RowsFrom(from + 1, width)

\* The latest call was a Render that drew a frame.
Rendered == last.op = "Render" /\ last.frame.drawn

\* The rows of the log pane of the latest frame.
PaneRows == Split(last.frame.log, LF)

\* The Active View lines with a row in a Tailing pane of `height` rows.
ShownInTail(width, height) ==
    {i \in 0..(Len(lineView) - 1) : Len(RowsFrom(i + 1, width)) < height}

OldestShown(width, height) ==
    CHOOSE i \in ShownInTail(width, height) :
        \A j \in ShownInTail(width, height) : i <= j

\* The latest call was a Tailing render with a line of the view in its pane.
TailRenderedLine ==
    /\ Rendered
    /\ scrollPosition < 0
    /\ ShownInTail(last.width, last.frame.logHeight) # {}

\* C5: a Tailing render records the index of the oldest Active View line in
\* the frame as first displayed index, and a scrollBy(delta) issued next
\* yields Pinned(clamp(0, len(ActiveView)-1, max(0, i) + delta)) for that i.
C5_AnchorLeavingTailing ==
    [][/\ TailRenderedLine' =>
            firstDisplayedLine' = OldestShown(last.width, last.frame.logHeight)'
       /\ (TailRenderedLine /\ last'.op = "ScrollBy") =>
            LET i == OldestShown(last.width, last.frame.logHeight)
                to == (IF i > 0 THEN i ELSE 0) + last'.arg
                top == Len(lineView) - 1
            IN  scrollPosition' = IF to > top THEN top ELSE IF to < 0 THEN 0 ELSE to
      ]_vars

\* The rows the log pane is said to get in Pinned mode.
PinnedTarget ==
    IF shouldShowStatusbar /\ last.height >= 2 THEN last.height - 1 ELSE last.height

\* C6: the Pinned log pane has height-1 rows with the status line enabled and
\* height >= 2, the full height otherwise: with enough lines from the pinned
\* index on, exactly the first that many rows are rendered.
C6_PinnedPaneHeight ==
    (/\ Rendered
     /\ scrollPosition >= 0
     /\ Len(RowsFrom(scrollPosition, last.width)) >= PinnedTarget)
        => PaneRows = Slice(RowsFrom(scrollPosition, last.width), 0, PinnedTarget)

C8_EmptyLogStatus ==
    (Rendered /\ lines = <<>> /\ buffer = <<>>) =>
        /\ \A k \in 1..Len(last.frame.log) : last.frame.log[k] \in {SP, LF}
        /\ last.frame.statusbar => last.frame.lineStatus = <<>>

\* C9: scrollTo(index) yields Tailing for index < 0 and
\* Pinned(clamp(0, len(ActiveView)-1, index)) otherwise.
C9_ScrollTo ==
    last.op = "ScrollTo" =>
        LET top == Len(lineView) - 1
            below == IF last.arg < top THEN last.arg ELSE top
        IN  /\ last.arg < 0 => scrollPosition < 0
            /\ last.arg >= 0 => scrollPosition = (IF below > 0 THEN below ELSE 0)
            /\ (last.arg = 0 /\ Len(lineView) > 0) => scrollPosition = 0

\* A scrollTo past the end of a view of several lines pinned its last line.
C9_Witness ==
    /\ last.op = "ScrollTo"
    /\ last.arg > Len(lineView) - 1
    /\ Len(lineView) >= 2
    /\ scrollPosition = Len(lineView) - 1

\* The latest call changed the query text to a pattern that compiles.
QueryChanged ==
    /\ last.op \in {"SetQuery", "KeyRune", "KeyBackspace"}
    /\ input # <<>>
    /\ Compile(input) # Nil

\* C10: right after the query changes to a valid non-empty pattern the
\* Filtered View is matchLine applied to every line of the Line Store in
\* order, non-matches dropped.
C10_FullRecompute ==
    QueryChanged =>
        /\ queryRe = Compile(input)
        /\ filtered = RecomputeAll(lines, Compile(input))

\* A keystroke made "a" the query over a matching and a non-matching line.
C10_Witness ==
    /\ last.op = "KeyRune"
    /\ input = <<"a">>
    /\ lines = << <<"a">>, <<>> >>
    /\ filtered = << <<HS, "a", HE>> >>


(***************************************************************************)
(* SetQuery observed: `ref` keeps the Model as it was before the call, and *)
(* `step` tells a SetQuery("") that directly follows a SetQuery(p).        *)
(***************************************************************************)
\* The Model before a call, as `ref` keeps it.
Before ==
    [lines |-> lines, filtered |-> filtered, buffer |-> buffer, done |-> FALSE,
     queryRe |-> queryRe, scrollPosition |-> scrollPosition]

\* Model.SetQuery(query), the second of a pair when it clears a query that
\* the call just before it has set.
SetQueryObserved(query) ==
    /\ input' = query
    /\ LET r == handleSearch(Model, query)
       IN  /\ queryRe' = r.queryRe
           /\ filtered' = r.filtered
    /\ last' = Call("SetQuery", 0)
    /\ IF query = <<>> /\ step = "set" /\ last.op = "SetQuery"
       THEN step' = "cleared" /\ UNCHANGED ref
       ELSE step' = "set" /\ ref' = Before
    /\ UNCHANGED <<lines, buffer, focus, prevQuery, scrollVars, optVars, parts,
                   pipeVars>>

NextQuery ==
    \/ \E content \in Chunks : Write(content)
    \/ \E query \in Queries : SetQueryObserved(query)
    \/ \E n \in ScrollDeltas : ScrollBy(n)
    \/ \E line \in ScrollTargets : ScrollTo(line)

\* New() with or without WithStartAtHead.
InitQuery == Init /\ shouldShowStatusbar

SpecQuery == InitQuery /\ [][NextQuery]_vars

\* The latest call was a SetQuery("") directly after a SetQuery(p).
RoundTrip == step = "cleared" /\ last.op = "SetQuery"

\* C11: after SetQuery(p) directly followed by SetQuery(""), for a pattern p
\* that compiles or not, there is no query, the view is the Line Store
\* itself, and the Line Store and the pending buffer are what they were
\* before the two calls.
C11_FilterRoundTrip ==
    RoundTrip =>
        /\ input = <<>>
        /\ queryRe = Nil
        /\ lineView = lines
        /\ lines = ref.lines
        /\ buffer = ref.buffer

\* A round trip through a pattern that filtered a line out.
C11_Witness ==
    /\ RoundTrip
    /\ lines # <<>>
    /\ buffer # <<>>
    /\ filtered # <<>>
    /\ Len(filtered) < Len(lines)

\* The latest call was a SetQuery with a text that does not compile.
InvalidPatternSet ==
    /\ step = "set"
    /\ last.op = "SetQuery"
    /\ input # <<>>
    /\ Compile(input) = Nil

\* C12: SetQuery with a pattern that does not compile leaves the compiled
\* query, the Line Store, the pending buffer and the scroll position as they
\* were before the call.
C12_InvalidPatternNoOp ==
    InvalidPatternSet =>
        /\ queryRe = ref.queryRe
        /\ lines = ref.lines
        /\ buffer = ref.buffer
        /\ scrollPosition = ref.scrollPosition

\* An invalid pattern set while a filter is active and the view is pinned.
C12_Witness ==
    /\ InvalidPatternSet
    /\ queryRe # Nil
    /\ scrollPosition >= 1
    /\ buffer # <<>>


(***************************************************************************)
(* searchLine on its own: a Line Store of one line over two letters, and   *)
(* SetQuery with patterns that match it at several places, at its start    *)
(* only, or with an empty match.                                           *)
(***************************************************************************)
MatchLines == StringsUpTo({"a", "b"}, MaxLine)

Patterns ==
    (StringsUpTo({"a", "b"}, MaxQuery) \ {<<>>}) \cup {<<"^">>, <<"^", "a">>}

\* New() and Write(line + "\n").
InitMatch ==
    /\ \E line \in MatchLines : lines = <<line>>
    /\ filtered = <<>>
    /\ buffer = <<>>
    /\ input = <<>>
    /\ queryRe = Nil
    /\ focus = "focusNone"
    /\ prevQuery = <<>>
    /\ scrollPosition = -1
    /\ firstDisplayedLine = 0
    /\ shouldHardwrap = FALSE
    /\ shouldShowStatusbar = TRUE
    /\ last = Call("Write", 0)
    /\ NoExperiment

NextMatch == \E query \in Patterns : SetQueryObserved(query)

SpecMatch == InitMatch /\ [][NextMatch]_vars

\* The spans are matches of the pattern, left to right, none overlapping
\* another, each the leftmost one after the span before it.
SpansInOrder(re, line, spans) ==
    /\ \A k \in 1..Len(spans) :
          /\ MatchesAt(re, line, spans[k][1])
          /\ spans[k][2] = spans[k][1] + Len(Literal(re))
          /\ k > 1 => spans[k - 1][2] <= spans[k][1]
          /\ \A j \in (IF k > 1 THEN spans[k - 1][2] ELSE 0)..(spans[k][1] - 1) :
                ~MatchesAt(re, line, j)
    /\ spans = <<>> => \A j \in 0..Len(line) : ~MatchesAt(re, line, j)

\* The markers that stand before byte i of a line with these spans.
MarkersAt(spans, i) ==
    (IF \E k \in 1..Len(spans) : spans[k][1] < i /\ spans[k][2] = i
     THEN <<HE>> ELSE <<>>)
    \o (IF \E k \in 1..Len(spans) : spans[k] = <<i, i>>
        THEN <<HS, HE>> ELSE <<>>)
    \o (IF \E k \in 1..Len(spans) : spans[k][1] = i /\ spans[k][2] > i
        THEN <<HS>> ELSE <<>>)

\* The line from byte i on, every span between its markers.
RECURSIVE MarkFrom(_, _, _)
MarkFrom(line, spans, i) ==
    MarkersAt(spans, i)
        \o (IF i < Len(line) THEN <<line[i + 1]>> \o MarkFrom(line, spans, i + 1)
            ELSE <<>>)

\* SetQuery has just searched the Line Store with a pattern that compiled.
Matched == last.op = "SetQuery" /\ queryRe # Nil /\ queryRe = input

\* C13: searchLine gives nothing exactly when the pattern has no match in the
\* line; otherwise it gives the line with each of the left-to-right,
\* non-overlapping matches between the highlight markers and every other
\* byte as it was, so that without the markers it is the line again.
C13_MatchLine ==
    Matched =>
        LET line == lines[1]
            spans == FindAllStringIndex(queryRe, line)
        IN  /\ SpansInOrder(queryRe, line, spans)
            /\ spans = <<>> <=> filtered = <<>>
            /\ spans # <<>> =>
                  /\ filtered = <<MarkFrom(line, spans, 0)>>
                  /\ StripMarkers(filtered[1]) = line

\* "abab" searched for "b": two marked spans, text before and between them.
C13_Witness ==
    /\ Matched
    /\ input = <<"b">>
    /\ lines = << <<"a", "b", "a", "b">> >>
    /\ filtered = << <<"a", HS, "b", HE, "a", HS, "b", HE>> >>


(***************************************************************************)
(* wrapLine on its own: one line, the rows left in the pane and the width  *)
(* of the pane in `parts`, what wrapLine returned in `ref`.                *)
(***************************************************************************)
\* New() with or without WithStartAtHead, Write(line + "\n"), and a render
\* that has parts[1] rows left for the line in a pane parts[2] wide.
InitWrap ==
    /\ \E line \in MatchLines : lines = <<line>>
    /\ filtered = <<>>
    /\ buffer = <<>>
    /\ input = <<>>
    /\ queryRe = Nil
    /\ focus = "focusNone"
    /\ prevQuery = <<>>
    /\ scrollPosition \in {-1, 0}
    /\ firstDisplayedLine = 0
    /\ shouldHardwrap = FALSE
    /\ shouldShowStatusbar = TRUE
    /\ last = Call("Write", 0)
    /\ parts \in (1..MaxRows) \X (1..MaxWidth)
    /\ step = "start"
    /\ ref = [wrapped |-> <<>>, height |-> 0]
    /\ NoProgram

\* m.wrapLine(line, maxLines, width).
WrapLine ==
    /\ step = "start"
    /\ LET r == wrapLine(shouldHardwrap, scrollPosition, lines[1],
                         parts[1], parts[2])
       IN  ref' = [wrapped |-> r[1], height |-> r[2]]
    /\ step' = "wrapped"
    /\ UNCHANGED <<storeVars, searchVars, scrollVars, optVars, last, parts,
                   pipeVars>>

NextWrap == WrapLine

SpecWrap == InitWrap /\ [][NextWrap]_vars

\* The rows of the full reflow of the line at the width of the pane.
FullReflow == Split(wrapString(lines[1], parts[2]), LF)

\* C14: when the line reflows to more rows than are left, wrapLine returns
\* as many rows as are left, the last ones of the full reflow while tailing
\* and the first ones while pinned; otherwise it returns the full reflow and
\* its number of rows.
C14_ClippingDirection ==
    step = "wrapped" =>
        LET k == Len(FullReflow)
            m == parts[1]
            rows == Split(ref.wrapped, LF)
        IN  IF m < k
            THEN /\ ref.height = m
                 /\ Len(rows) = m
                 /\ \A i \in 1..m :
                       rows[i] = IF scrollPosition < 0 THEN FullReflow[k - m + i]
                                 ELSE FullReflow[i]
            ELSE /\ ref.height = k
                 /\ rows = FullReflow

\* "aabb" at width 1 with two rows left while tailing: the rows "b", "b".
C14_Witness ==
    /\ step = "wrapped"
    /\ scrollPosition < 0
    /\ lines = << <<"a", "a", "b", "b">> >>
    /\ parts = <<2, 1>>
    /\ ref = [wrapped |-> <<"b", LF, "b">>, height |-> 2]

\* The same line and pane while pinned: the rows "a", "a".
C14_WitnessPinned ==
    /\ step = "wrapped"
    /\ scrollPosition >= 0
    /\ lines = << <<"a", "a", "b", "b">> >>
    /\ parts = <<2, 1>>
    /\ ref = [wrapped |-> <<"a", LF, "a">>, height |-> 2]


\* C15: once a ScrollBy call has resolved the scroll position to a pinned
\* index, a ScrollBy(0) that follows it leaves the position as it is, and so
\* does any number of them, whatever the length of the view, zero included.
C15_ScrollByZero ==
    last.op = "ScrollBy" =>
        /\ scrollPosition >= 0
        /\ scrollBy(Model, 0) = scrollPosition

\* A ScrollBy(0) made while pinned to the second line of the view.
C15_Witness ==
    /\ last.op = "ScrollBy"
    /\ last.arg = 0
    /\ scrollPosition = 1
    /\ Len(lineView) >= 2

\* A ScrollBy(0) made on an empty view.
C15_WitnessEmpty ==
    /\ last.op = "ScrollBy"
    /\ last.arg = 0
    /\ lineView = <<>>


(***************************************************************************)
(* main: the goroutine that tails the source sends every chunk it reads    *)
(* with program.Send, which blocks until the event loop takes the message; *)
(* the terminal's input reader sends the user's events the same way.  The  *)
(* event loop takes one message at a time and runs scroll.Update on it.    *)
(***************************************************************************)
Streams == StringsUpTo(SplitBytes, MaxSplitChunk)

UserEvents == {"up", "down", "home", "end", "resize"}

\* What tailStdin writes when the scanner is done.
EOFLine == <<"E", "O", "F", LF>>

\* The rest of the stream.
Unread == Slice(source.all, source.pos, Len(source.all))

\* newScroll(), and the source given on the command line.
InitProgram ==
    /\ lines = <<>>
    /\ filtered = <<>>
    /\ buffer = <<>>
    /\ input = <<>>
    /\ queryRe = Nil
    /\ focus = "focusNone"
    /\ prevQuery = <<>>
    /\ scrollPosition = -1
    /\ firstDisplayedLine = 0
    /\ shouldHardwrap = FALSE
    /\ shouldShowStatusbar = TRUE
    /\ last = Call("New", 0)
    /\ parts = <<>>
    /\ step = "off"
    /\ ref = [lines |-> <<>>, filtered |-> <<>>, buffer |-> <<>>, done |-> FALSE]
    /\ \E mode \in {"stdin", "file"}, all \in Streams :
          source = [mode |-> mode, all |-> all, pos |-> 0, eof |-> FALSE]
    /\ msgs = [tail |-> Nil, user |-> "none", quit |-> FALSE]
    /\ delivered = <<>>

\* tailFile: one turn of the loop, with the first k unread bytes in the file
\* by now; io.ReadAll returns them, or nothing, and sink sends them.
TailFile(k) ==
    /\ source.mode = "file"
    /\ msgs.tail = Nil
    /\ ~msgs.quit
    /\ k <= Len(Unread)
    /\ msgs' = [msgs EXCEPT !.tail = Slice(Unread, 0, k)]
    /\ source' = [source EXCEPT !.pos = @ + k]
    /\ UNCHANGED <<storeVars, searchVars, scrollVars, optVars, last,
                   parts, step, ref, delivered>>

\* tailStdin: one turn of the loop; the scanner gives the next line without
\* its end of line, and sink sends it with "\n", or "EOF\n" at the end.
TailStdin ==
    /\ source.mode = "stdin"
    /\ msgs.tail = Nil
    /\ ~msgs.quit
    /\ ~source.eof
    /\ IF Unread = <<>>
       THEN /\ msgs' = [msgs EXCEPT !.tail = EOFLine]
            /\ source' = [source EXCEPT !.eof = TRUE]
       ELSE LET i == IndexByte(Unread, LF)
                advance == IF i >= 0 THEN i + 1 ELSE Len(Unread)
            IN  /\ msgs' = [msgs EXCEPT !.tail = ScanLines(Unread)[1] \o <<LF>>]
                /\ source' = [source EXCEPT !.pos = @ + advance]
    /\ UNCHANGED <<storeVars, searchVars, scrollVars, optVars, last,
                   parts, step, ref, delivered>>

\* main: tailStdin has returned, its last message taken; main sends tea.Quit
\* and the event loop ends.
Quit ==
    /\ source.eof
    /\ msgs.tail = Nil
    /\ ~msgs.quit
    /\ msgs' = [msgs EXCEPT !.quit = TRUE]
    /\ UNCHANGED <<storeVars, searchVars, scrollVars, optVars, last,
                   parts, step, ref, source, delivered>>

\* The terminal's input reader sends a key, the mouse wheel or a resize.
UserInput(event) ==
    /\ msgs.user = "none"
    /\ ~msgs.quit
    /\ msgs' = [msgs EXCEPT !.user = event]
    /\ UNCHANGED <<storeVars, searchVars, scrollVars, optVars, last,
                   parts, step, ref, source, delivered>>

\* scroll.Update(writeMsg): the event loop takes the chunk and writes it.
UpdateWrite ==
    /\ msgs.tail # Nil
    /\ ~msgs.quit
    /\ LET st == handleWrite(Store, queryRe, msgs.tail)
       IN  /\ lines' = st.lines
           /\ filtered' = st.filtered
           /\ buffer' = st.buffer
    /\ delivered' = delivered \o msgs.tail
    /\ msgs' = [msgs EXCEPT !.tail = Nil]
    /\ last' = Call("Write", 0)
    /\ UNCHANGED <<searchVars, scrollVars, optVars, parts, step, ref, source>>

\* scroll.Update(tea.WindowSizeMsg) and logview.Update(key or mouse wheel).
UpdateUser ==
    /\ msgs.user # "none"
    /\ ~msgs.quit
    /\ scrollPosition' =
          CASE msgs.user = "up" -> scrollBy(Model, -1)
            [] msgs.user = "down" -> scrollBy(Model, 1)
            [] msgs.user = "home" -> scrollTo(Model, 0)
            [] msgs.user = "end" -> scrollTo(Model, -1)
            [] OTHER -> scrollPosition
    /\ msgs' = [msgs EXCEPT !.user = "none"]
    /\ last' = Call("Update", 0)
    /\ UNCHANGED <<storeVars, searchVars, firstDisplayedLine, optVars,
                   parts, step, ref, source, delivered>>

NextProgram ==
    \/ \E k \in 0..MaxSplitChunk : TailFile(k)
    \/ TailStdin
    \/ Quit
    \/ \E event \in UserEvents : UserInput(event)
    \/ UpdateWrite
    \/ UpdateUser

SpecProgram == InitProgram /\ [][NextProgram]_vars

\* The chunks the tailing goroutine has sent so far, joined: for a file the
\* bytes read; for stdin every line read with its "\n", and "EOF\n".
RECURSIVE JoinLines(_)
JoinLines(ls) ==
    IF Len(ls) = 0 THEN <<>> ELSE ls[1] \o <<LF>> \o JoinLines(Tail(ls))

Sent ==
    IF source.mode = "file" THEN Slice(source.all, 0, source.pos)
    ELSE JoinLines(ScanLines(Slice(source.all, 0, source.pos)))
             \o (IF source.eof THEN EOFLine ELSE <<>>)

\* The lines of a stream, each ended by "\n" or "\r\n", and what follows
\* the last "\n".
SeparatorSplit(stream) ==
    LET pieces == Split(stream, LF)
    IN  [lines |-> [i \in 1..(Len(pieces) - 1) |-> dropCR(pieces[i])],
         buffer |-> pieces[Len(pieces)]]

\* C16: under every interleaving of the tailing goroutine, the user and the
\* event loop, the chunks written are the chunks sent, in the order they
\* were sent, up to the one still in the channel, and the Line Store and the
\* pending buffer are the lines, and the rest, of the chunks written so far,
\* joined.
C16_ProducerConsumer ==
    /\ Sent = delivered \o (IF msgs.tail # Nil THEN msgs.tail ELSE <<>>)
    /\ lines = SeparatorSplit(delivered).lines
    /\ buffer = SeparatorSplit(delivered).buffer


\* The rows RenderLog gives the pane of the latest frame in Pinned mode.
PinnedRows == logHeight(shouldShowStatusbar, last.frame.logHeight)

\* C17: a SetQuery made while pinned leaves the scroll position pinned, and
\* the render that follows it clamps the pinned index to the new view: after
\* it the index is within the view, and the pane, when it has a row, starts
\* with the line at that index.
C17_ReclampAfterViewSwitch ==
    [][/\ (last'.op = "SetQuery" /\ scrollPosition >= 0) => scrollPosition' >= 0
       /\ (last.op = "SetQuery" /\ scrollPosition >= 0 /\ Rendered'
              /\ lineView # <<>>) =>
            /\ scrollPosition' \in 0..(Len(lineView) - 1)
            /\ PinnedRows' >= 1 =>
                  PaneRows'[1] =
                      RowsOfLine(lineView[scrollPosition' + 1], last'.width)[1]
      ]_vars


\* xs is the start of ys.
IsPrefix(xs, ys) == Len(xs) <= Len(ys) /\ Slice(ys, 0, Len(xs)) = xs

\* C18: the Line Store after any call starts with the Line Store before it,
\* no line removed, moved or rewritten, and only Write makes it longer.
C18_AppendOnly ==
    [][/\ IsPrefix(lines, lines')
       /\ lines' # lines => last'.op = "Write"
      ]_vars

\* A Write has added a second line and left an unfinished one in the buffer.
C18_Witness ==
    /\ last.op = "Write"
    /\ Len(lines) = 2
    /\ buffer # <<>>


\* The string holds a "\n".
HasSeparator(s) == \E i \in 1..Len(s) : s[i] = LF

\* The Model is what the first half, written alone, made of the store `ref`.
FirstHalfWritten == step = "first" /\ ~ref.done

\* C19: after any Write calls neither the pending buffer nor a line holds a
\* "\n"; after a chunk that is not empty the buffer is empty exactly when
\* the chunk ended with "\n"; and a chunk written on a pending buffer makes
\* a line of it exactly when it holds a "\n", and leaves it pending otherwise.
C19_PendingBuffer ==
    /\ ~HasSeparator(buffer)
    /\ \A i \in 1..Len(lines) : ~HasSeparator(lines[i])
    /\ (step = "first" /\ parts[1] # <<>>) =>
          (buffer = <<>> <=> HasSuffix(parts[1], <<LF>>))
    /\ (step = "both" /\ parts[2] # <<>>) =>
          (buffer = <<>> <=> HasSuffix(parts[2], <<LF>>))
    /\ (FirstHalfWritten /\ ref.buffer # <<>>) =>
          IF HasSeparator(parts[1])
          THEN /\ Len(lines) > Len(ref.lines)
               /\ HasPrefix(lines[Len(ref.lines) + 1], ref.buffer)
          ELSE /\ lines = ref.lines
               /\ HasPrefix(buffer, ref.buffer)


\* C20: "esc" or "ctrl+c" in the search bar gives the focus back to the log
\* pane and restores the search that was there when "/" was pressed: the
\* query text is the one kept when the edit began, and the filter is its
\* pattern, or no filter when that text is empty.
C20_CancelRestoresSearch ==
    [][last'.op = "KeyEsc" =>
           /\ focus' = "FocusLogPane"
           /\ input' = prevQuery
           /\ prevQuery = <<>> => queryRe' = Nil
           /\ (prevQuery # <<>> /\ Compile(prevQuery) # Nil) =>
                 queryRe' = Compile(prevQuery)
      ]_vars

====
